---- MODULE Spec2Model ----
(***************************************************************************)
(* aiopentdb: the client's caches, the cache-backed question iterator      *)
(* (get_questions), the network-backed question iterator                   *)
(* (fetch_questions), the response classification of Client._request and   *)
(* Client.populate.                                                        *)
(*                                                                         *)
(* Python's None is the string "None" where the other values are strings   *)
(* (enum member names, tokens) and the empty sequence where they are       *)
(* numbers (an absent response_code).  An enum member is named by its      *)
(* member name: the enum metaclass keeps one object per value, so identity *)
(* of members (the `is` of the filters) is equality of names.              *)
(***************************************************************************)
EXTENDS Integers, Sequences, FiniteSets, TLC

VARIABLES
    maxlen,          \* Client._questions.maxlen (max_questions)
    token,           \* Client._token
    questions,       \* Client._questions, oldest first
    categories,      \* Client._categories: id -> Category
    counts,          \* Client._counts: id -> Count
    global_counts,   \* Client._global_counts: key -> GlobalCount
    iters,           \* the _QuestionsIterator objects that exist
    fetcher,         \* the _AsyncQuestionsIterator object that exists
    net,             \* requests issued by the operation that ran last
    outcome          \* what the operation that ran last did

vars == <<maxlen, token, questions, categories, counts, global_counts,
          iters, fetcher, net, outcome>>

None == "None"

(***************************************************************************)
(* Bounds of the model.                                                    *)
(***************************************************************************)
\* largest max_questions a client is constructed with
MaxCap == 2
\* largest amount passed to get_questions
MaxAmount == 2
\* largest amount passed to fetch_questions
MaxFetchAmount == 101
\* most questions the transport returns to one request
MaxResults == 3
\* the count requests of a populate that may fail: the first MaxFailAt and
\* the last
MaxFailAt == 2

(***************************************************************************)
(* Program constants.                                                      *)
(***************************************************************************)
\* the batch size of _AsyncQuestionsIterator
BatchSize == 50
\* the id of the first category of the static table
FirstCategoryId == 9
\* the default of max_questions
DefaultMaxQuestions == 50

\* the names tuple of _get_category_mappings
CategoryNames ==
    << "General Knowledge", "Entertainment: Books", "Entertainment: Film",
       "Entertainment: Music", "Entertainment: Musicals & Theatres",
       "Entertainment: Television", "Entertainment: Video Games",
       "Entertainment: Board Games", "Science & Nature", "Science: Computers",
       "Science: Mathematics", "Mythology", "Sports", "Geography", "History",
       "Politics", "Art", "Celebrities", "Animals", "Vehicles",
       "Entertainment: Comics", "Science: Gadgets",
       "Entertainment: Japanese Anime & Manga",
       "Entertainment: Cartoon & Animations" >>

\* the members of the CategoryType enum, in value order (general = 9, ...)
CategoryTypeNames ==
    << "general", "books", "film", "music", "musicals_and_theatres",
       "television", "video_games", "board_games", "science_and_nature",
       "computers", "mathematics", "mythology", "sports", "geography",
       "history", "politics", "art", "celebrities", "animals", "vehicles",
       "comics", "gadgets", "anime_and_manga", "cartoon_and_animations" >>

\* the keys of Category._VALUE_MAPPING, in insertion order
CategoryIds == [i \in 1..Len(CategoryNames) |-> FirstCategoryId + i - 1]

CategoryIdSet == {CategoryIds[i] : i \in 1..Len(CategoryIds)}

\* a table of names that gives each id the name of the next entry
_VALUE_MAPPING_next(id) == CategoryNames[((id - FirstCategoryId + 1) % Len(CategoryNames)) + 1]

\* Category._VALUE_MAPPING[id]
_VALUE_MAPPING(id) == CategoryNames[id - FirstCategoryId + 1]

\* Category._NAME_MAPPING[name]
_NAME_MAPPING(name) ==
    CHOOSE id \in CategoryIdSet : CategoryNames[id - FirstCategoryId + 1] = name

\* CategoryType(value): the member of the enum with that value
CategoryType(id) == CategoryTypeNames[id - FirstCategoryId + 1]

\* Category.__init__
Category(data) == [name |-> data.name, id |-> data.id, type |-> CategoryType(data.id)]

\* Category._from_partial for a payload that carries a name and no id
\* (a question) or an id and no name (a count)
_from_partial(cats, data) ==
    LET name == data.name
        id   == data.id
        rid  == IF name # None THEN (IF id # 0 THEN id ELSE _NAME_MAPPING(name)) ELSE id
        rnm  == IF name # None THEN name ELSE _VALUE_MAPPING(id)
    IN  IF name = None /\ id = 0 THEN [name |-> None, id |-> 0, type |-> None]
        ELSE IF rid \in DOMAIN cats THEN cats[rid]
        ELSE Category([name |-> rnm, id |-> rid])

(***************************************************************************)
(* Questions.  Pool holds the raw records the transport serves: their text *)
(* is a number, and category, difficulty and type differ so that a filter  *)
(* accepts both, one or none of them.                                      *)
(***************************************************************************)
Pool ==
    << [ question |-> 1, category |-> "Entertainment: Books",
         difficulty |-> "easy", type |-> "multiple" ],
       [ question |-> 2, category |-> "General Knowledge",
         difficulty |-> "easy", type |-> "boolean" ] >>

\* Question.__init__, after _create_questions renamed 'category' to 'name'
Question(cats, data) ==
    [ type       |-> data.type,
      difficulty |-> data.difficulty,
      content    |-> data.question,
      category   |-> _from_partial(cats, [name |-> data.category, id |-> 0]) ]

\* _AsyncQuestionsIterator._create_questions
_create_questions(cats, payload) ==
    [i \in 1..Len(payload) |-> Question(cats, payload[i])]

(***************************************************************************)
(* The bounded question cache: collections.deque(maxlen=max_questions).    *)
(***************************************************************************)
\* a bounded list that refuses the new item when it is full
Append_reject(q, x, n) == IF Len(q) < n THEN Append(q, x) ELSE q

\* an append that ignores maxlen
Append_unbounded(q, x, n) == Append(q, x)

\* deque.append on a deque with a maxlen
Append_maxlen(q, x, n) ==
    IF n = 0 THEN q
    ELSE IF Len(q) >= n THEN Append(Tail(q), x)
    ELSE Append(q, x)

\* an extend that clears the deque first
Extend_clear(q, items, n) ==
    IF Len(items) <= n THEN items
    ELSE SubSeq(items, Len(items) - n + 1, Len(items))

\* deque.extend: append the items one by one (the deque after each append
\* is computed before the next append starts)
RECURSIVE Extend(_, _, _)
Extend(q, items, n) ==
    IF items = <<>> THEN q
    ELSE CHOOSE r \in {Extend(q1, rest, n) :
                          q1 \in {Append_maxlen(q, Head(items), n)},
                          rest \in {Tail(items)}} : TRUE

\* index of the first element of q equal to x, 0 when there is none
RECURSIVE IndexOf(_, _, _)
IndexOf(q, x, i) ==
    IF i > Len(q) THEN 0
    ELSE IF q[i] = x THEN i
    ELSE IndexOf(q, x, i + 1)

\* q without its element at index i
DropAt(q, i) == [j \in 1..(Len(q) - 1) |-> IF j < i THEN q[j] ELSE q[j + 1]]

\* a remove that drops every element equal to x
Remove_every(q, x) ==
    IF IndexOf(q, x, 1) = 0 THEN [raised |-> "ValueError", q |-> q]
    ELSE [raised |-> None, q |-> SelectSeq(q, LAMBDA y : y # x)]

\* deque.remove: drops the first element equal to x (Question is an attrs
\* class, equal when all fields are equal); ValueError when there is none
Remove(q, x) ==
    LET At(i) == IF i = 0 THEN [raised |-> "ValueError", q |-> q]
                 ELSE [raised |-> None, q |-> DropAt(q, i)]
    IN  At(IndexOf(q, x, 1))

(***************************************************************************)
(* _QuestionsIterator.                                                     *)
(*   snapshot, pos   the list iterator over the copy of the cache          *)
(*   yielded, taken, raised, stopped, flattened   history of the iterator: *)
(*     the questions it returned one at a time, their snapshot positions,  *)
(*     whether a call raised an error, whether a call reached the end,     *)
(*     whether flatten was called on it                                    *)
(***************************************************************************)
NoIterator ==
    [ made |-> FALSE, snapshot |-> <<>>, pos |-> 0, amount |-> 0,
      category_type |-> None, difficulty_type |-> None, question_type |-> None,
      consume |-> FALSE, current |-> 0,
      yielded |-> <<>>, taken |-> {}, raised |-> FALSE,
      stopped |-> FALSE, flattened |-> FALSE ]

\* Client.questions: a copy of the deque as a list
questions_property(q) == q

\* _QuestionsIterator.__init__
_QuestionsIterator(q, amount, category, difficulty, type, consume) ==
    [ NoIterator EXCEPT
        !.made = TRUE, !.snapshot = questions_property(q), !.amount = amount,
        !.category_type = category, !.difficulty_type = difficulty,
        !.question_type = type, !.consume = consume ]

\* an iterator that walks the deque itself
Walked_live(it, live) == live

\* the list the iterator walks: the copy made by __init__, never the deque
Walked(it, live) == it.snapshot

\* a filter that looks at the category alone
_is_valid_category(it, question) ==
    ~(it.category_type # None /\ question.category.type # it.category_type)

\* _QuestionsIterator._is_valid
_is_valid(it, question) ==
    IF it.category_type # None /\ question.category.type # it.category_type THEN FALSE
    ELSE IF it.difficulty_type # None /\ question.difficulty # it.difficulty_type THEN FALSE
    ELSE IF it.question_type # None /\ question.type # it.question_type THEN FALSE
    ELSE TRUE

\* the while loop of _get_question: the position of the next question of
\* the walked list that passes the filters, 0 when next() raises StopIteration
RECURSIVE NextValid(_, _, _)
NextValid(it, src, p) ==
    IF p > Len(src) THEN 0
    ELSE IF _is_valid(it, src[p]) THEN p
    ELSE NextValid(it, src, p + 1)

\* a _get_question that removes the question from the deque whatever
\* consume says
_get_question_remove(it, live) ==
    LET Stop(pos) ==
            [it |-> [it EXCEPT !.pos = pos, !.stopped = TRUE], live |-> live,
             result |-> "StopIteration", question |-> None]
        Return(p, question, rm) ==
            IF rm.raised # None
            THEN [it |-> [it EXCEPT !.pos = p, !.raised = TRUE],
                  live |-> live, result |-> rm.raised, question |-> None]
            ELSE [it |-> [it EXCEPT !.pos = p, !.current = it.current + 1,
                                    !.yielded = Append(it.yielded, question),
                                    !.taken = it.taken \cup {p}],
                  live |-> rm.q, result |-> "yield", question |-> question]
        Loop(src, p) ==
            IF p = 0 THEN Stop(IF Len(src) > it.pos THEN Len(src) ELSE it.pos)
            ELSE Return(p, src[p],
                        Remove(live, src[p]))
        Walk(src) == Loop(src, NextValid(it, src, it.pos + 1))
    IN  IF it.current >= it.amount THEN Stop(it.pos)
        ELSE Walk(Walked(it, live))

\* _QuestionsIterator._get_question: the iterator and the deque afterwards,
\* and what the call did
_get_question(it, live) ==
    LET Stop(pos) ==
            [it |-> [it EXCEPT !.pos = pos, !.stopped = TRUE], live |-> live,
             result |-> "StopIteration", question |-> None]
        Return(p, question, rm) ==
            IF rm.raised # None
            THEN [it |-> [it EXCEPT !.pos = p, !.raised = TRUE],
                  live |-> live, result |-> rm.raised, question |-> None]
            ELSE [it |-> [it EXCEPT !.pos = p, !.current = it.current + 1,
                                    !.yielded = Append(it.yielded, question),
                                    !.taken = it.taken \cup {p}],
                  live |-> rm.q, result |-> "yield", question |-> question]
        Loop(src, p) ==
            IF p = 0 THEN Stop(IF Len(src) > it.pos THEN Len(src) ELSE it.pos)
            ELSE Return(p, src[p],
                        IF it.consume THEN Remove(live, src[p])
                        ELSE [raised |-> None, q |-> live])
        Walk(src) == Loop(src, NextValid(it, src, it.pos + 1))
    IN  IF it.current >= it.amount THEN Stop(it.pos)
        ELSE Walk(Walked(it, live))

\* a flatten that returns from inside its loop, after the first question
flatten_first(it, live, acc) ==
    LET Got(r) ==
            IF r.result = "yield"
            THEN [it |-> r.it, live |-> r.live, result |-> "return",
                  questions |-> Append(acc, r.question)]
            ELSE IF r.result = "StopIteration"
            THEN [it |-> r.it, live |-> r.live, result |-> "return", questions |-> acc]
            ELSE [it |-> r.it, live |-> r.live, result |-> r.result, questions |-> <<>>]
    IN  Got(_get_question(it, live))

\* _QuestionsIterator.flatten: calls _get_question until StopIteration; any
\* other error ends the call and the list gathered so far is lost
RECURSIVE flatten(_, _, _)
flatten(it, live, acc) ==
    LET Got(r) ==
            IF r.result = "yield" THEN flatten(r.it, r.live, Append(acc, r.question))
            ELSE IF r.result = "StopIteration"
            THEN [it |-> r.it, live |-> r.live, result |-> "return", questions |-> acc]
            ELSE [it |-> r.it, live |-> r.live, result |-> r.result, questions |-> <<>>]
    IN  Got(_get_question(it, live))

(***************************************************************************)
(* The transport and Client._request.  A response is the parsed JSON body: *)
(*   code      <<>> when the body has no response_code, else <<c>>         *)
(*   results   the raw question records (api.php)                          *)
(*   token     the token (api_token.php)                                   *)
(***************************************************************************)
\* the result list of a response: n raw questions starting at question seed
Results(n, seed, stride) ==
    [i \in 1..n |-> Pool[((seed - 1 + (i - 1) * stride) % Len(Pool)) + 1]]

\* key of the overall record in Client._global_counts (None in the code)
OverallKey == 0

\*   ids       the ids of the records of a category list (api_category.php)
\*             or of a global count (api_count_global.php)
\*   id        the category_id of a count (api_count.php)
Response(code, results, tok) ==
    [code |-> code, results |-> results, token |-> tok, ids |-> <<>>, id |-> 0]

\* a request as the transport sees it
Request(endpoint, amount, category, tok) ==
    [endpoint |-> endpoint, amount |-> amount, category |-> category, token |-> tok]

\* an error table with the two token errors exchanged
_ERRORS_exchanged(key) ==
    CASE key = <<>>  -> None
      [] key = <<0>> -> None
      [] key = <<1>> -> "NoResults"
      [] key = <<2>> -> "InvalidParameter"
      [] key = <<3>> -> "TokenEmpty"
      [] key = <<4>> -> "TokenNotFound"
      [] OTHER       -> "KeyError"

\* Client._ERRORS[key]; a key the table lacks raises KeyError
_ERRORS(key) ==
    CASE key = <<>>  -> None
      [] key = <<0>> -> None
      [] key = <<1>> -> "NoResults"
      [] key = <<2>> -> "InvalidParameter"
      [] key = <<3>> -> "TokenNotFound"
      [] key = <<4>> -> "TokenEmpty"
      [] OTHER       -> "KeyError"

\* Client._request, from the parsed body on: the error raised (None when
\* the call returns) and the payload returned
_request(resp) ==
    LET Raise(error_type) ==
            IF error_type # None
            THEN [raised |-> error_type, payload |-> Response(<<>>, <<>>, None)]
            ELSE [raised |-> None, payload |-> [resp EXCEPT !.code = <<>>]]
    IN  Raise(_ERRORS(resp.code))

(***************************************************************************)
(* _AsyncQuestionsIterator.                                                *)
(*   amounts, fetched   the two Python iterators, as what is left of them  *)
(*   issued, answers, errors, yielded, failed, stopped, flattened          *)
(*     history of the iterator: the amount of each request it issued, the  *)
(*     response to each, the error _request raised on each (None when it   *)
(*     returned), the questions __anext__ returned, whether a request of   *)
(*     it raised, whether a call raised StopAsyncIteration, whether        *)
(*     flatten was called on it                                            *)
(***************************************************************************)
NoFetcher ==
    [ made |-> FALSE, amount |-> 0, amounts |-> <<>>, fetched |-> <<>>,
      token |-> None,
      issued |-> <<>>, answers |-> <<>>, errors |-> <<>>, yielded |-> <<>>,
      failed |-> FALSE, stopped |-> FALSE, flattened |-> FALSE ]

\* one request for the whole amount
Amounts_whole(amount) == <<amount, 0>>

\* amounts with one batch more than divmod gives
Amounts_more(amount) ==
    [i \in 1..((amount \div BatchSize) + 2) |->
        IF i <= (amount \div BatchSize) + 1 THEN BatchSize ELSE amount % BatchSize]

\* (*(50,) * repeat, remainder) with repeat, remainder = divmod(amount, 50)
Amounts(amount) ==
    [i \in 1..((amount \div BatchSize) + 1) |->
        IF i <= amount \div BatchSize THEN BatchSize ELSE amount % BatchSize]

\* _AsyncQuestionsIterator.__init__
_AsyncQuestionsIterator(amount, tok) ==
    [ NoFetcher EXCEPT
        !.made = TRUE, !.amount = amount, !.amounts = Amounts(amount), !.token = tok ]

\* _AsyncQuestionsIterator._fetch_questions; resps are the responses the
\* transport gives to the requests to come, the first of them is used when
\* the call issues its request
_fetch_questions(ft, cats, resps) ==
    LET Stop(ft1) ==
            [ft |-> [ft1 EXCEPT !.stopped = TRUE], result |-> "StopAsyncIteration",
             questions |-> <<>>, resps |-> resps]
        Answered(ft2, r) ==
            IF r.raised # None
            THEN [ft |-> [ft2 EXCEPT !.failed = TRUE], result |-> r.raised,
                  questions |-> <<>>, resps |-> Tail(resps)]
            ELSE [ft |-> ft2, result |-> "return",
                  questions |-> _create_questions(cats, r.payload.results),
                  resps |-> Tail(resps)]
        Requested(amount, r) ==
            Answered([ft EXCEPT !.amounts = Tail(ft.amounts),
                                !.issued = Append(ft.issued, amount),
                                !.answers = Append(ft.answers, Head(resps)),
                                !.errors = Append(ft.errors, r.raised)], r)
        Took(amount) ==
            IF amount = 0 THEN Stop([ft EXCEPT !.amounts = Tail(ft.amounts)])
            ELSE Requested(amount, _request(Head(resps)))
    IN  IF ft.amounts = <<>> THEN Stop(ft)
        ELSE Took(Head(ft.amounts))

\* a flatten that returns what it gathered when a request fails
RECURSIVE async_flatten_partial(_, _, _, _)
async_flatten_partial(ft, cats, resps, acc) ==
    LET Got(r) ==
            IF r.result = "return"
            THEN async_flatten_partial(r.ft, cats, r.resps, acc \o r.questions)
            ELSE [ft |-> r.ft, result |-> "return", questions |-> acc]
    IN  Got(_fetch_questions(ft, cats, resps))

\* _AsyncQuestionsIterator.flatten
RECURSIVE async_flatten(_, _, _, _)
async_flatten(ft, cats, resps, acc) ==
    LET Got(r) ==
            IF r.result = "return"
            THEN async_flatten(r.ft, cats, r.resps, acc \o r.questions)
            ELSE IF r.result = "StopAsyncIteration"
            THEN [ft |-> r.ft, result |-> "return", questions |-> acc]
            ELSE [ft |-> r.ft, result |-> r.result, questions |-> <<>>]
    IN  Got(_fetch_questions(ft, cats, resps))

\* _AsyncQuestionsIterator.__anext__
RECURSIVE __anext__(_, _, _)
__anext__(ft, cats, resps) ==
    IF ft.fetched # <<>>
    THEN [ft |-> [ft EXCEPT !.fetched = Tail(ft.fetched),
                            !.yielded = Append(ft.yielded, Head(ft.fetched))],
          result |-> "yield", question |-> Head(ft.fetched)]
    ELSE
      LET Got(r) ==
              IF r.result = "return"
              THEN __anext__([r.ft EXCEPT !.fetched = r.questions], cats, r.resps)
              ELSE [ft |-> r.ft, result |-> r.result, question |-> None]
      IN  Got(_fetch_questions(ft, cats, resps))

(***************************************************************************)
(* Client.populate.  The client is the record                              *)
(*   [token, questions, categories, counts, global_counts]                 *)
(* and a stage returns the client after it, the requests it issued and the *)
(* error it raised.  script holds the transport's responses:               *)
(*   script.token, script.categories, script.global_counts   one response  *)
(*   script.questions   one response per batch                             *)
(*   script.counts      one response per category of the static table      *)
(***************************************************************************)
Settings(tok, qs, cats, cnts, gcs, overwrite) ==
    [ token |-> tok, questions |-> qs, categories |-> cats, counts |-> cnts,
      global_counts |-> gcs, overwrite |-> overwrite ]

\* Client.fetch_token
fetch_token(resp) ==
    LET Got(r) == [raised |-> r.raised, token |-> r.payload.token,
                   net |-> <<Request("api_token.php", 0, 0, None)>>]
    IN  Got(_request(resp))

\* a populate that fetches a token whether or not one is cached
PopulateToken_always(c, settings, script) ==
    LET Got(r) == [c |-> IF r.raised = None THEN [c EXCEPT !.token = r.token] ELSE c,
                   net |-> r.net, raised |-> r.raised, pushed |-> <<>>]
    IN  IF settings.token
        THEN Got(fetch_token(script.token))
        ELSE [c |-> c, net |-> <<>>, raised |-> None, pushed |-> <<>>]

\* a reset_token that sends its request whether or not it has a token
reset_token_unchecked(c, tok, resp) ==
    LET is_internal == tok = None
        Sent(used, r) ==
            [c |-> IF r.raised = None /\ is_internal THEN [c EXCEPT !.token = r.payload.token]
                   ELSE c,
             net |-> <<Request("api_token.php", 0, 0, used)>>,
             raised |-> r.raised, new_token |-> r.payload.token]
    IN  Sent(IF is_internal THEN c.token ELSE tok, _request(resp))

\* a reset_token that caches the token returned whoever supplied the old one
reset_token_store(c, tok, resp) ==
    LET is_internal == tok = None
        Sent(used, r) ==
            [c |-> IF r.raised = None THEN [c EXCEPT !.token = r.payload.token] ELSE c,
             net |-> <<Request("api_token.php", 0, 0, used)>>,
             raised |-> r.raised, new_token |-> r.payload.token]
        Checked(used) ==
            IF used = None
            THEN [c |-> c, net |-> <<>>, raised |-> "ValueError", new_token |-> None]
            ELSE Sent(used, _request(resp))
    IN  Checked(IF is_internal THEN c.token ELSE tok)

\* Client.reset_token(token=tok)
reset_token(c, tok, resp) ==
    LET is_internal == tok = None
        Sent(used, r) ==
            [c |-> IF r.raised = None /\ is_internal THEN [c EXCEPT !.token = r.payload.token]
                   ELSE c,
             net |-> <<Request("api_token.php", 0, 0, used)>>,
             raised |-> r.raised, new_token |-> r.payload.token]
        Checked(used) ==
            IF used = None
            THEN [c |-> c, net |-> <<>>, raised |-> "ValueError", new_token |-> None]
            ELSE Sent(used, _request(resp))
    IN  Checked(IF is_internal THEN c.token ELSE tok)

\* populate, lines 481-483
PopulateToken(c, settings, script) ==
    LET Got(r) == [c |-> IF r.raised = None THEN [c EXCEPT !.token = r.token] ELSE c,
                   net |-> r.net, raised |-> r.raised, pushed |-> <<>>]
    IN  IF settings.token /\ (c.token = None \/ settings.overwrite)
        THEN Got(fetch_token(script.token))
        ELSE [c |-> c, net |-> <<>>, raised |-> None, pushed |-> <<>>]

\* a fetch_questions that accepts the amount 0
fetch_questions_zero(c, amount, tok) ==
    IF amount < 0
    THEN [raised |-> "ValueError", ft |-> NoFetcher]
    ELSE [raised |-> None,
          ft |-> _AsyncQuestionsIterator(amount, IF tok # None THEN tok ELSE c.token)]

\* a fetch_questions that does not fall back on the cached token
fetch_questions_bare(c, amount, tok) ==
    IF amount < 1
    THEN [raised |-> "ValueError", ft |-> NoFetcher]
    ELSE [raised |-> None, ft |-> _AsyncQuestionsIterator(amount, tok)]

\* Client.fetch_questions: the iterator it returns
fetch_questions(c, amount, tok) ==
    IF amount < 1
    THEN [raised |-> "ValueError", ft |-> NoFetcher]
    ELSE [raised |-> None,
          ft |-> _AsyncQuestionsIterator(amount, IF tok # None THEN tok ELSE c.token)]

\* a populate that asks for the free slots whatever overwrite says
PopulateQuestions_free(c, n, settings, script) ==
    LET Sent(ft) ==
            [i \in 1..Len(ft.issued) |-> Request("api.php", ft.issued[i], 0, ft.token)]
        Got(r) ==
            IF r.result = "return"
            THEN [c |-> [c EXCEPT !.questions = Extend(c.questions, r.questions, n)],
                  net |-> Sent(r.ft), raised |-> None, pushed |-> r.questions]
            ELSE [c |-> c, net |-> Sent(r.ft), raised |-> r.result, pushed |-> <<>>]
        Made(questions_iterator) ==
            Got(async_flatten(questions_iterator.ft, c.categories, script.questions, <<>>))
        Fill(questions_amount) ==
            IF questions_amount > 0
            THEN Made(fetch_questions(c, questions_amount, None))
            ELSE [c |-> c, net |-> <<>>, raised |-> None, pushed |-> <<>>]
    IN  IF settings.questions
        THEN Fill(n - Len(c.questions))
        ELSE [c |-> c, net |-> <<>>, raised |-> None, pushed |-> <<>>]

\* populate, lines 485-499
PopulateQuestions(c, n, settings, script) ==
    LET Sent(ft) ==
            [i \in 1..Len(ft.issued) |-> Request("api.php", ft.issued[i], 0, ft.token)]
        Got(r) ==
            IF r.result = "return"
            THEN [c |-> [c EXCEPT !.questions = Extend(c.questions, r.questions, n)],
                  net |-> Sent(r.ft), raised |-> None, pushed |-> r.questions]
            ELSE [c |-> c, net |-> Sent(r.ft), raised |-> r.result, pushed |-> <<>>]
        Made(questions_iterator) ==
            Got(async_flatten(questions_iterator.ft, c.categories, script.questions, <<>>))
        Fill(questions_amount) ==
            IF questions_amount > 0
            THEN Made(fetch_questions(c, questions_amount, None))
            ELSE [c |-> c, net |-> <<>>, raised |-> None, pushed |-> <<>>]
    IN  IF settings.questions
        THEN Fill(IF settings.overwrite THEN n ELSE n - Len(c.questions))
        ELSE [c |-> c, net |-> <<>>, raised |-> None, pushed |-> <<>>]

\* Client.fetch_categories with Client._create_categories
fetch_categories(resp) ==
    LET Got(r) ==
            [raised |-> r.raised,
             categories |-> [i \in 1..Len(r.payload.ids) |->
                               Category([name |-> _VALUE_MAPPING(r.payload.ids[i]),
                                         id |-> r.payload.ids[i]])],
             net |-> <<Request("api_category.php", 0, 0, None)>>]
    IN  Got(_request(resp))

\* dict[key] = value
Store(dict, key, value) ==
    [x \in (DOMAIN dict) \cup {key} |-> IF x = key THEN value ELSE dict[x]]

\* the dict after dict[keys[i]] = list[i] for every i, in order
RECURSIVE StoreAll(_, _, _)
StoreAll(dict, keys, list) ==
    IF list = <<>> THEN dict
    ELSE StoreAll(Store(dict, Head(keys), Head(list)), Tail(keys), Tail(list))

\* a populate that goes on to the next target when the categories request
\* fails
PopulateCategories_swallow(c, settings, script) ==
    LET Got(r) == [c |-> c, net |-> r.net, raised |-> None, pushed |-> <<>>]
    IN  IF settings.categories /\ (DOMAIN c.categories = {} \/ settings.overwrite)
        THEN Got(fetch_categories(script.categories))
        ELSE [c |-> c, net |-> <<>>, raised |-> None, pushed |-> <<>>]

\* populate, lines 501-504
PopulateCategories(c, settings, script) ==
    LET key(category) == category.id
        Got(r) ==
            IF r.raised = None
            THEN [c |-> [c EXCEPT !.categories =
                           StoreAll(c.categories,
                                    [i \in 1..Len(r.categories) |-> key(r.categories[i])],
                                    r.categories)],
                  net |-> r.net, raised |-> None, pushed |-> <<>>]
            ELSE [c |-> c, net |-> r.net, raised |-> r.raised, pushed |-> <<>>]
    IN  IF settings.categories /\ (DOMAIN c.categories = {} \/ settings.overwrite)
        THEN Got(fetch_categories(script.categories))
        ELSE [c |-> c, net |-> <<>>, raised |-> None, pushed |-> <<>>]

\* Client.fetch_count with Client._create_count
fetch_count(c, category_id, resp) ==
    LET Got(r) ==
            [raised |-> r.raised,
             count |-> [category |-> _from_partial(c.categories,
                                                    [name |-> None, id |-> r.payload.id])],
             net |-> <<Request("api_count.php", 0, category_id, None)>>]
    IN  Got(_request(resp))

\* the loop of populate, lines 508-510, from the i-th category id on
RECURSIVE CountsLoop(_, _, _, _)
CountsLoop(c, i, resps, net0) ==
    LET Got(id, r) ==
            IF r.raised # None
            THEN [c |-> c, net |-> net0 \o r.net, raised |-> r.raised, pushed |-> <<>>]
            ELSE CountsLoop([c EXCEPT !.counts = Store(c.counts, id, r.count)],
                            i + 1, resps, net0 \o r.net)
    IN  IF i > Len(CategoryIds) THEN [c |-> c, net |-> net0, raised |-> None, pushed |-> <<>>]
        ELSE Got(CategoryIds[i], fetch_count(c, CategoryIds[i], resps[i]))

\* a populate that fetches the counts whether or not some are cached
PopulateCounts_always(c, settings, script) ==
    IF settings.counts
    THEN CountsLoop(c, 1, script.counts, <<>>)
    ELSE [c |-> c, net |-> <<>>, raised |-> None, pushed |-> <<>>]

\* a populate whose counts loop leaves out the first category
PopulateCounts_rest(c, settings, script) ==
    IF settings.counts /\ (DOMAIN c.counts = {} \/ settings.overwrite)
    THEN CountsLoop(c, 2, script.counts, <<>>)
    ELSE [c |-> c, net |-> <<>>, raised |-> None, pushed |-> <<>>]

\* populate, lines 506-510
PopulateCounts(c, settings, script) ==
    IF settings.counts /\ (DOMAIN c.counts = {} \/ settings.overwrite)
    THEN CountsLoop(c, 1, script.counts, <<>>)
    ELSE [c |-> c, net |-> <<>>, raised |-> None, pushed |-> <<>>]

\* Client.fetch_global_counts with Client._create_global_counts: the
\* overall record first, then one record per category of the payload
fetch_global_counts(c, resp) ==
    LET Got(r) ==
            [raised |-> r.raised,
             global_counts |->
                <<[category |-> _from_partial(c.categories, [name |-> None, id |-> 0])]>>
                \o [i \in 1..Len(r.payload.ids) |->
                      [category |-> _from_partial(c.categories,
                                                  [name |-> None, id |-> r.payload.ids[i]])]],
             net |-> <<Request("api_count_global.php", 0, 0, None)>>]
    IN  Got(_request(resp))

\* populate, lines 512-517
PopulateGlobalCounts(c, settings, script) ==
    LET key(global_count) ==
            IF global_count.category.type # None THEN global_count.category.id
            ELSE OverallKey
        Got(r) ==
            IF r.raised = None
            THEN [c |-> [c EXCEPT !.global_counts =
                           StoreAll(c.global_counts,
                                    [i \in 1..Len(r.global_counts) |-> key(r.global_counts[i])],
                                    r.global_counts)],
                  net |-> r.net, raised |-> None, pushed |-> <<>>]
            ELSE [c |-> c, net |-> r.net, raised |-> r.raised, pushed |-> <<>>]
    IN  IF settings.global_counts /\ (DOMAIN c.global_counts = {} \/ settings.overwrite)
        THEN Got(fetch_global_counts(c, script.global_counts))
        ELSE [c |-> c, net |-> <<>>, raised |-> None, pushed |-> <<>>]

\* Client.populate: the stages in the order of the code, the first error
\* ends the call
populate(c, n, settings, script) ==
    LET Then(s, t) == [t EXCEPT !.net = s.net \o t.net, !.pushed = s.pushed \o t.pushed]
        AfterCounts(s4) ==
            IF s4.raised # None THEN s4
            ELSE Then(s4, PopulateGlobalCounts(s4.c, settings, script))
        AfterCategories(s3) ==
            IF s3.raised # None THEN s3
            ELSE AfterCounts(Then(s3, PopulateCounts(s3.c, settings, script)))
        AfterQuestions(s2) ==
            IF s2.raised # None THEN s2
            ELSE AfterCategories(Then(s2, PopulateCategories(s2.c, settings, script)))
        AfterToken(s1) ==
            IF s1.raised # None THEN s1
            ELSE AfterQuestions(Then(s1, PopulateQuestions(s1.c, n, settings, script)))
    IN  AfterToken(PopulateToken(c, settings, script))

(***************************************************************************)
(* The state machine.                                                      *)
(***************************************************************************)
IterIds == {1, 2}

Min(a, b) == IF a < b THEN a ELSE b

\* what an operation reports:
\*   op         the operation
\*   result     "return", "yield" or the error raised
\*   pushed     the questions a populate gave to the deque, or the
\*              questions a flatten returned
\*   overwrite  settings.overwrite of a populate
\*   missing    a consuming pull reached a question the deque did not hold
Outcome(op, result, pushed, overwrite, missing) ==
    [ op |-> op, result |-> result, pushed |-> pushed, overwrite |-> overwrite,
      missing |-> missing ]

\* the client of the current state
Client == [ token |-> token, questions |-> questions, categories |-> categories,
            counts |-> counts, global_counts |-> global_counts ]

\* Client.__init__ with max_questions = n
ClientInit(n) ==
    /\ n >= 0
    /\ maxlen = n
    /\ token = None
    /\ questions = <<>>
    /\ categories = <<>>
    /\ counts = <<>>
    /\ global_counts = <<>>
    /\ iters = [i \in IterIds |-> NoIterator]
    /\ fetcher = NoFetcher
    /\ net = <<>>
    /\ outcome = Outcome("__init__", "return", <<>>, FALSE, FALSE)

Init == \E n \in 0..MaxCap : ClientInit(n)

\* Client.get_questions, the iterator kept as iterator i
GetQuestions(i, amount, category, difficulty, type, consume) ==
    /\ \A j \in IterIds : j < i => iters[j].made
    /\ IF amount < 1
       THEN /\ iters' = iters
            /\ outcome' = Outcome("get_questions", "ValueError", <<>>, FALSE, FALSE)
       ELSE /\ iters' = [iters EXCEPT ![i] =
                           _QuestionsIterator(questions, amount, category,
                                              difficulty, type, consume)]
            /\ outcome' = Outcome("get_questions", "return", <<>>, FALSE, FALSE)
    /\ net' = <<>>
    /\ UNCHANGED <<maxlen, token, questions, categories, counts, global_counts, fetcher>>

\* the consuming iterator it, pulled now, reaches a question that the
\* deque does not hold
ReachesMissing(it, live) ==
    /\ it.consume
    /\ it.current < it.amount
    /\ LET p == NextValid(it, it.snapshot, it.pos + 1)
       IN  p # 0 /\ \A j \in 1..Len(live) : live[j] # it.snapshot[p]

\* _QuestionsIterator.__next__ on iterator i
Next_(i) ==
    /\ iters[i].made
    /\ \E r \in {_get_question(iters[i], questions)} :
           /\ iters' = [iters EXCEPT ![i] = r.it]
           /\ questions' = r.live
           /\ outcome' = Outcome("__next__", r.result, <<>>, FALSE,
                                 ReachesMissing(iters[i], questions))
    /\ net' = <<>>
    /\ UNCHANGED <<maxlen, token, categories, counts, global_counts, fetcher>>

\* _QuestionsIterator.flatten on iterator i
Flatten(i) ==
    /\ iters[i].made
    /\ \E r \in {flatten(iters[i], questions, <<>>)} :
           /\ iters' = [iters EXCEPT ![i] = [r.it EXCEPT !.flattened = TRUE]]
           /\ questions' = r.live
           /\ outcome' = Outcome("flatten", r.result, r.questions, FALSE, FALSE)
    /\ net' = <<>>
    /\ UNCHANGED <<maxlen, token, categories, counts, global_counts, fetcher>>

(***************************************************************************)
(* The transport's responses.                                              *)
(***************************************************************************)
SuccessCodes == {<<>>, <<0>>}

ErrorCodes == {<<1>>, <<2>>, <<3>>, <<4>>, <<5>>}

Tokens == {"t1", "t2"}

\* the result lists of at most n questions: nothing, or a run of the pool
\* from any question on, or one question repeated
ResultLists(n) ==
    {Results(k, seed, stride) : k \in 0..n, seed \in 1..Len(Pool), stride \in {0, 1}}

TokenResponses ==
    {Response(code, <<>>, tok) : code \in SuccessCodes, tok \in Tokens}
    \cup {Response(code, <<>>, None) : code \in ErrorCodes}

\* a response that carries the ids of the static table, or an error
ListResponses ==
    {[Response(code, <<>>, None) EXCEPT !.ids = CategoryIds] : code \in SuccessCodes}
    \cup {Response(code, <<>>, None) : code \in ErrorCodes}

\* the responses to the count requests of one populate: all succeed, or
\* the k-th fails
CountScripts ==
    {[i \in 1..Len(CategoryIds) |->
        [Response(IF i = k THEN code ELSE <<0>>, <<>>, None) EXCEPT !.id = CategoryIds[i]]] :
        k \in 0..Len(CategoryIds), code \in ErrorCodes}

Script(tok, qs, cats, cnts, gcs) ==
    [token |-> tok, questions |-> qs, categories |-> cats, counts |-> cnts,
     global_counts |-> gcs]

\* the amount populate asks fetch_questions for
Needed(overwrite) == IF overwrite THEN maxlen ELSE maxlen - Len(questions)

\* Client.populate; the outcome also holds the settings of the call and
\* the responses the transport had for it
Populate(settings, script) ==
    /\ \E r \in {populate(Client, maxlen, settings, script)} :
           /\ token' = r.c.token
           /\ questions' = r.c.questions
           /\ categories' = r.c.categories
           /\ counts' = r.c.counts
           /\ global_counts' = r.c.global_counts
           /\ net' = r.net
           /\ outcome' = Outcome("populate",
                                 IF r.raised = None THEN "return" ELSE r.raised,
                                 r.pushed, settings.overwrite, FALSE)
                          @@ [settings |-> settings, script |-> script]
    /\ UNCHANGED <<maxlen, iters, fetcher>>

\* the filters get_questions is called with: none, one of each kind, all
Filters ==
    { <<None, None, None>>, <<"books", None, None>>, <<None, "hard", None>>,
      <<None, None, "boolean">>, <<"books", "easy", "multiple">> }

GetQuestionsStep(ids) ==
    \E i \in ids, amount \in 0..MaxAmount, consume \in BOOLEAN, f \in Filters :
        GetQuestions(i, amount, f[1], f[2], f[3], consume)

\* the caller drops iterator i
Discard(i) ==
    /\ iters[i].made
    /\ iters' = [iters EXCEPT ![i] = NoIterator]
    /\ outcome' = Outcome("discard", "return", <<>>, FALSE, FALSE)
    /\ net' = <<>>
    /\ UNCHANGED <<maxlen, token, questions, categories, counts, global_counts, fetcher>>

(***************************************************************************)
(* The fetch iterator.                                                     *)
(***************************************************************************)
\* Client.fetch_questions, the iterator kept as the fetcher
FetchQuestions(amount, tok) ==
    /\ \E r \in {fetch_questions(Client, amount, tok)} :
           /\ fetcher' = IF r.raised = None THEN r.ft ELSE fetcher
           /\ outcome' = Outcome("fetch_questions",
                                 IF r.raised = None THEN "return" ELSE r.raised,
                                 <<>>, FALSE, FALSE)
    /\ net' = <<>>
    /\ UNCHANGED <<maxlen, token, questions, categories, counts, global_counts, iters>>

\* the requests ft1 issued after ft0
NewRequests(ft0, ft1) ==
    [i \in 1..(Len(ft1.issued) - Len(ft0.issued)) |->
        Request("api.php", ft1.issued[Len(ft0.issued) + i], 0, ft1.token)]

\* _AsyncQuestionsIterator.__anext__ on the fetcher
Anext(resps) ==
    /\ fetcher.made
    /\ \E r \in {__anext__(fetcher, categories, resps)} :
           /\ fetcher' = r.ft
           /\ net' = NewRequests(fetcher, r.ft)
           /\ outcome' = Outcome("__anext__", r.result, <<>>, FALSE, FALSE)
    /\ UNCHANGED <<maxlen, token, questions, categories, counts, global_counts, iters>>

\* _AsyncQuestionsIterator.flatten on the fetcher
AsyncFlatten(resps) ==
    /\ fetcher.made
    /\ \E r \in {async_flatten(fetcher, categories, resps, <<>>)} :
           /\ fetcher' = [r.ft EXCEPT !.flattened = TRUE]
           /\ net' = NewRequests(fetcher, r.ft)
           /\ outcome' = Outcome("async_flatten", r.result, r.questions, FALSE, FALSE)
    /\ UNCHANGED <<maxlen, token, questions, categories, counts, global_counts, iters>>

\* the caller drops the fetcher
DiscardFetcher ==
    /\ fetcher.made
    /\ fetcher' = NoFetcher
    /\ outcome' = Outcome("discard", "return", <<>>, FALSE, FALSE)
    /\ net' = <<>>
    /\ UNCHANGED <<maxlen, token, questions, categories, counts, global_counts, iters>>

\* the amounts the fetcher still has to request
Pending(ft) == SelectSeq(ft.amounts, LAMBDA a : a > 0)

\* the responses to a question request that returns no question
EmptyResponses(ok) == {Response(code, <<>>, None) : code \in ok}

\* the result lists of at most n questions that start at the first
\* question of the pool
Runs(n) == {Results(k, 1, 1) : k \in 0..n}

\* the responses to one batch of amount questions; ok and errors are the
\* response codes of the responses that succeed and that fail, a negative
\* amount stands for the amount with every result list of ResultLists
BatchResponses(amount, ok, errors) ==
    {Response(code, results, None) :
        code \in ok,
        results \in IF amount < 0 THEN ResultLists(Min(-amount, MaxResults))
                    ELSE Runs(Min(amount, MaxResults))}
    \cup {Response(code, <<>>, None) : code \in errors}

\* the responses __anext__ can use up: batches that return no question,
\* then one batch that returns questions or fails (or no batch is left)
RECURSIVE AnextScripts(_, _, _)
AnextScripts(pending, ok, errors) ==
    IF pending = <<>> THEN {<<>>}
    ELSE {<<r>> : r \in BatchResponses(Head(pending), ok, errors) \ EmptyResponses(ok)}
         \cup {<<e>> \o rest : e \in EmptyResponses(ok),
                               rest \in AnextScripts(Tail(pending), ok, errors)}

\* the responses flatten can use up: batches that succeed, then one batch
\* that fails (or no batch is left)
RECURSIVE FlattenScripts(_, _, _)
FlattenScripts(pending, ok, errors) ==
    IF pending = <<>> THEN {<<>>}
    ELSE {<<r>> : r \in BatchResponses(Head(pending), {}, errors)}
         \cup {<<r>> \o rest : r \in BatchResponses(Head(pending), ok, {}),
                               rest \in FlattenScripts(Tail(pending), ok, errors)}

AnextStep(ok, errors) ==
    \E resps \in AnextScripts(Pending(fetcher), ok, errors) : Anext(resps)

AsyncFlattenStep(ok, errors) ==
    \E resps \in FlattenScripts(Pending(fetcher), ok, errors) : AsyncFlatten(resps)

\* populate of the question cache alone; sign is -1 when the transport
\* serves any result list and 1 when it serves runs of the pool
PopulateQuestionsStep(sign) ==
    \E overwrite \in BOOLEAN :
      \E q \in FlattenScripts([i \in 1..Len(Pending([amounts |-> Amounts(Needed(overwrite))])) |->
                                 sign * Pending([amounts |-> Amounts(Needed(overwrite))])[i]],
                              {<<0>>}, {<<1>>}) :
        Populate(Settings(FALSE, TRUE, FALSE, FALSE, FALSE, overwrite),
                 Script(Response(<<0>>, <<>>, None), q, Response(<<0>>, <<>>, None),
                        <<>>, Response(<<0>>, <<>>, None)))

\* the caller holds no iterator
NoIterators == ~fetcher.made /\ \A i \in IterIds : ~iters[i].made

(***************************************************************************)
(* Spec: the question cache and one iterator at a time, of either kind;    *)
(* populate runs when the caller holds no iterator.                        *)
(***************************************************************************)
Next ==
    \/ NoIterators /\ PopulateQuestionsStep(-1)
    \/ ~fetcher.made /\ GetQuestionsStep({1})
    \/ Next_(1)
    \/ Flatten(1)
    \/ Discard(1)
    \/ NoIterators /\ \E amount \in {0, 1, BatchSize, BatchSize + 1} :
                         FetchQuestions(amount, None)
    \/ AnextStep({<<0>>}, {<<1>>})
    \/ AsyncFlattenStep({<<0>>}, {<<1>>})
    \/ DiscardFetcher

Spec == Init /\ [][Next]_vars

(***************************************************************************)
(* SpecFetch: a client with the default capacity and one fetch iterator at *)
(* a time, of any amount up to MaxFetchAmount, against every response code.*)
(***************************************************************************)
InitFetch == ClientInit(DefaultMaxQuestions)

NextFetch ==
    \/ ~fetcher.made /\ \E amount \in 0..MaxFetchAmount : FetchQuestions(amount, None)
    \/ AnextStep(SuccessCodes, ErrorCodes)
    \/ AsyncFlattenStep({<<0>>}, {<<1>>})
    \/ DiscardFetcher

SpecFetch == InitFetch /\ [][NextFetch]_vars

(***************************************************************************)
(* SpecTwo: the question cache and two iterators over it, every operation  *)
(* running at any time: iterator 1 leaves the cache alone, iterator 2      *)
(* consumes, and both take every question, up to MaxAmount.                *)
(***************************************************************************)
InitTwo == \E n \in 0..MaxCap : ClientInit(n)

GetAllStep ==
    \E i \in IterIds : GetQuestions(i, MaxAmount, None, None, None, i = 2)

NextTwo ==
    \/ PopulateQuestionsStep(1)
    \/ GetAllStep
    \/ \E i \in IterIds : Next_(i)

SpecTwo == InitTwo /\ [][NextTwo]_vars

(***************************************************************************)
(* SpecFill: populate of the question cache alone, for capacities that     *)
(* need no batch, one batch and two batches; the transport answers a batch *)
(* with all the questions asked for, with none, or with an error.          *)
(***************************************************************************)
\* the responses flatten can use up, batch by batch: the batch is answered
\* in full or with no question and the next batch follows, or it fails
RECURSIVE FillScripts(_)
FillScripts(pending) ==
    IF pending = <<>> THEN {<<>>}
    ELSE {<<Response(<<1>>, <<>>, None)>>}
         \cup {<<Response(<<0>>, results, None)>> \o rest :
                  results \in {<<>>, Results(Head(pending), 1, 1)},
                  rest \in FillScripts(Tail(pending))}

InitFill == \E n \in (0..MaxCap) \cup {BatchSize, BatchSize + 1} : ClientInit(n)

PopulateFill ==
    \E overwrite \in BOOLEAN :
      \E q \in FillScripts(Pending([amounts |-> Amounts(Needed(overwrite))])) :
        Populate(Settings(FALSE, TRUE, FALSE, FALSE, FALSE, overwrite),
                 Script(Response(<<0>>, <<>>, None), q, Response(<<0>>, <<>>, None),
                        <<>>, Response(<<0>>, <<>>, None)))

NextFill == PopulateFill

SpecFill == InitFill /\ [][NextFill]_vars

(***************************************************************************)
(* SpecPopulate: populate with every target, alone and all together, with  *)
(* and without overwrite; at most one request of a call fails, and the     *)
(* transport hands out a token that differs from the cached one.           *)
(***************************************************************************)
\* the targets of populate in the order of the code
Stages == <<"token", "questions", "categories", "counts", "global_counts">>

\* the targets enabled: none, one, all
TargetSets ==
    {[i \in 1..Len(Stages) |-> FALSE], [i \in 1..Len(Stages) |-> TRUE]}
    \cup {[i \in 1..Len(Stages) |-> i = j] : j \in 1..Len(Stages)}

PopulateSettings ==
    {Settings(t[1], t[2], t[3], t[4], t[5], overwrite) :
        t \in TargetSets, overwrite \in BOOLEAN}

\* a token the client does not hold
FreshToken == IF token = "t1" THEN "t2" ELSE "t1"

\* the requests that may fail: none (stage "None"), the one request of a
\* stage, or the k-th count request
Failures ==
    {<<None, 0>>}
    \cup {<<Stages[i], 1>> : i \in 1..Len(Stages)}
    \cup {<<"counts", k>> : k \in (2..MaxFailAt) \cup {Len(CategoryIds)}}

\* the response code of the k-th request of a stage when the request
\* fail[2] of stage fail[1] fails
CodeAt(fail, stage, k) == IF fail = <<stage, k>> THEN <<1>> ELSE <<0>>

\* the transport's responses to a populate with the given overwrite: every
\* request is answered in full but the one that fails
FailScript(fail, overwrite) ==
    Script([Response(CodeAt(fail, "token", 1), <<>>, FreshToken)
               EXCEPT !.token = IF fail[1] = "token" THEN None ELSE FreshToken],
           [i \in 1..Len(Pending([amounts |-> Amounts(Needed(overwrite))])) |->
               Response(CodeAt(fail, "questions", i),
                        IF fail = <<"questions", i>> THEN <<>>
                        ELSE Results(Pending([amounts |-> Amounts(Needed(overwrite))])[i], 1, 1),
                        None)],
           [Response(CodeAt(fail, "categories", 1), <<>>, None)
               EXCEPT !.ids = IF fail[1] = "categories" THEN <<>> ELSE CategoryIds],
           [i \in 1..Len(CategoryIds) |->
               [Response(CodeAt(fail, "counts", i), <<>>, None)
                   EXCEPT !.id = IF fail = <<"counts", i>> THEN 0 ELSE CategoryIds[i]]],
           [Response(CodeAt(fail, "global_counts", 1), <<>>, None)
               EXCEPT !.ids = IF fail[1] = "global_counts" THEN <<>> ELSE CategoryIds])

InitPopulate == \E n \in 0..MaxCap : ClientInit(n)

\* a request of a target that is not enabled is never issued
PopulateAny ==
    \E settings \in PopulateSettings :
      \E fail \in {f \in Failures : f[1] = None \/ settings[f[1]]} :
        Populate(settings, FailScript(fail, settings.overwrite))

NextPopulate == PopulateAny

SpecPopulate == InitPopulate /\ [][NextPopulate]_vars

(***************************************************************************)
(* SpecResolve: Category._from_partial applied to every partial the static *)
(* table gives rise to (an id alone, a name alone, both, neither), on a    *)
(* client whose category cache is empty or was filled by populate.         *)
(***************************************************************************)
\* the partial payloads; an absent id is 0 and an absent name is None
Partials ==
    {[name |-> None, id |-> 0]}
    \cup {[name |-> None, id |-> CategoryIds[i]] : i \in 1..Len(CategoryIds)}
    \cup {[name |-> CategoryNames[i], id |-> 0] : i \in 1..Len(CategoryNames)}
    \cup {[name |-> CategoryNames[i], id |-> CategoryIds[i]] : i \in 1..Len(CategoryIds)}

\* Category._from_partial(client, data); the outcome holds the payload and
\* the category returned
FromPartial(data) ==
    /\ outcome' = Outcome("_from_partial", "return", <<>>, FALSE, FALSE)
                     @@ [data |-> data, category |-> _from_partial(categories, data)]
    /\ net' = <<>>
    /\ UNCHANGED <<maxlen, token, questions, categories, counts, global_counts,
                   iters, fetcher>>

InitResolve == ClientInit(0)

FromPartialStep == \E data \in Partials : FromPartial(data)

\* populate of the category cache alone, the request answered in full
PopulateCategoriesStep ==
    \E overwrite \in BOOLEAN :
      Populate(Settings(FALSE, FALSE, TRUE, FALSE, FALSE, overwrite),
               FailScript(<<None, 0>>, overwrite))

NextResolve ==
    \/ FromPartialStep
    \/ PopulateCategoriesStep

SpecResolve == InitResolve /\ [][NextResolve]_vars

(***************************************************************************)
(* SpecConfig: clients constructed with any capacity from -1 on, and       *)
(* get_questions and fetch_questions called with any amount from -1 on, on *)
(* caches that populate filled.                                            *)
(***************************************************************************)
\* Client.__init__ with max_questions = n: the error raised and the fields
\* of the client made
__init__(n) ==
    [ raised |-> IF n < 0 THEN "ValueError" ELSE None,
      maxlen |-> n,
      c |-> [ token |-> None, questions |-> <<>>, categories |-> <<>>,
              counts |-> <<>>, global_counts |-> <<>> ] ]

\* the caller constructs a client to take the place of the one it holds;
\* when the constructor raises there is no new client and the caller keeps
\* the old one and its iterators
Construct(n) ==
    /\ \E r \in {__init__(n)} :
           IF r.raised # None
           THEN /\ outcome' = Outcome("__init__", r.raised, <<>>, FALSE, FALSE)
                /\ UNCHANGED <<maxlen, token, questions, categories, counts,
                               global_counts, iters, fetcher>>
           ELSE /\ maxlen' = r.maxlen
                /\ token' = r.c.token
                /\ questions' = r.c.questions
                /\ categories' = r.c.categories
                /\ counts' = r.c.counts
                /\ global_counts' = r.c.global_counts
                /\ iters' = [i \in IterIds |-> NoIterator]
                /\ fetcher' = NoFetcher
                /\ outcome' = Outcome("__init__", "return", <<>>, FALSE, FALSE)
    /\ net' = <<>>

InitConfig == \E n \in 0..MaxCap : ClientInit(n)

ConstructStep == \E n \in (-1)..MaxCap : Construct(n)

GetAnyAmountStep ==
    \E amount \in (-1)..MaxAmount, consume \in BOOLEAN :
        GetQuestions(1, amount, None, None, None, consume)

FetchAnyAmountStep == \E amount \in (-1)..MaxAmount : FetchQuestions(amount, None)

NextConfig ==
    \/ ConstructStep
    \/ PopulateQuestionsStep(1)
    \/ GetAnyAmountStep
    \/ FetchAnyAmountStep

SpecConfig == InitConfig /\ [][NextConfig]_vars

(***************************************************************************)
(* SpecToken: the token cache under reset_token, with and without a token  *)
(* supplied, and under populate of the token alone, against every response *)
(* code.                                                                   *)
(***************************************************************************)
\* Client.reset_token; the outcome holds the token supplied, the response
\* the transport had and the token returned
ResetToken(tok, resp) ==
    /\ \E r \in {reset_token(Client, tok, resp)} :
           /\ token' = r.c.token
           /\ net' = r.net
           /\ outcome' = Outcome("reset_token",
                                 IF r.raised = None THEN "return" ELSE r.raised,
                                 <<>>, FALSE, FALSE)
                          @@ [supplied |-> tok, response |-> resp,
                              new_token |-> r.new_token]
    /\ UNCHANGED <<maxlen, questions, categories, counts, global_counts, iters, fetcher>>

InitToken == \E n \in 0..MaxCap : ClientInit(n)

ResetTokenStep ==
    \E tok \in Tokens \cup {None}, resp \in TokenResponses : ResetToken(tok, resp)

\* populate of the token cache alone
PopulateTokenStep ==
    \E overwrite \in BOOLEAN, resp \in TokenResponses :
      Populate(Settings(TRUE, FALSE, FALSE, FALSE, FALSE, overwrite),
               Script(resp, <<>>, Response(<<0>>, <<>>, None), <<>>,
                      Response(<<0>>, <<>>, None)))

NextToken ==
    \/ ResetTokenStep
    \/ PopulateTokenStep

SpecToken == InitToken /\ [][NextToken]_vars

(***************************************************************************)
(* SpecFrame: every operation of the client on one client: populate of any *)
(* target set, both question iterators, the token calls, the fetch calls   *)
(* of categories, counts and global counts, and the lookups.               *)
(***************************************************************************)
\* Client.fetch_token; the outcome holds the token returned
FetchToken(resp) ==
    /\ \E r \in {fetch_token(resp)} :
           /\ net' = r.net
           /\ outcome' = Outcome("fetch_token",
                                 IF r.raised = None THEN "return" ELSE r.raised,
                                 <<>>, FALSE, FALSE)
                          @@ [new_token |-> r.token]
    /\ UNCHANGED <<maxlen, token, questions, categories, counts, global_counts,
                   iters, fetcher>>

\* Client.fetch_categories; the outcome holds the list returned
FetchCategories(resp) ==
    /\ \E r \in {fetch_categories(resp)} :
           /\ net' = r.net
           /\ outcome' = Outcome("fetch_categories",
                                 IF r.raised = None THEN "return" ELSE r.raised,
                                 <<>>, FALSE, FALSE)
                          @@ [found |-> r.categories]
    /\ UNCHANGED <<maxlen, token, questions, categories, counts, global_counts,
                   iters, fetcher>>

\* Client.fetch_count; the outcome holds the count returned
FetchCount(category_id, resp) ==
    /\ \E r \in {fetch_count(Client, category_id, resp)} :
           /\ net' = r.net
           /\ outcome' = Outcome("fetch_count",
                                 IF r.raised = None THEN "return" ELSE r.raised,
                                 <<>>, FALSE, FALSE)
                          @@ [found |-> <<r.count>>]
    /\ UNCHANGED <<maxlen, token, questions, categories, counts, global_counts,
                   iters, fetcher>>

\* Client.fetch_global_counts; the outcome holds the list returned
FetchGlobalCounts(resp) ==
    /\ \E r \in {fetch_global_counts(Client, resp)} :
           /\ net' = r.net
           /\ outcome' = Outcome("fetch_global_counts",
                                 IF r.raised = None THEN "return" ELSE r.raised,
                                 <<>>, FALSE, FALSE)
                          @@ [found |-> r.global_counts]
    /\ UNCHANGED <<maxlen, token, questions, categories, counts, global_counts,
                   iters, fetcher>>

\* dict.get(key): the value in a list, the empty list when the key is absent
Get(dict, key) == IF key \in DOMAIN dict THEN <<dict[key]>> ELSE <<>>

\* Client.get_category
get_category(c, value) == Get(c.categories, value)

\* Client.get_count
get_count(c, value) == Get(c.counts, value)

\* Client.get_global_count; the category None is the key of the overall count
get_global_count(c, value) == Get(c.global_counts, value)

\* a lookup: get_category, get_count or get_global_count
Lookup(op, found) ==
    /\ outcome' = Outcome(op, "return", <<>>, FALSE, FALSE) @@ [found |-> found]
    /\ net' = <<>>
    /\ UNCHANGED <<maxlen, token, questions, categories, counts, global_counts,
                   iters, fetcher>>

GetCategory(value) == Lookup("get_category", get_category(Client, value))

GetCount(value) == Lookup("get_count", get_count(Client, value))

GetGlobalCount(value) == Lookup("get_global_count", get_global_count(Client, value))

\* the category ids the calls of SpecFrame are made with: the first and
\* the last of the static table
SomeIds == {CategoryIds[1], CategoryIds[Len(CategoryIds)]}

\* a response in full to a request of any endpoint, or an error
SomeResponses ==
    {[Response(<<0>>, <<>>, t) EXCEPT !.ids = CategoryIds, !.id = CategoryIds[1]] :
        t \in Tokens}
    \cup {Response(<<1>>, <<>>, None)}

InitFrame == ClientInit(MaxCap)

\* populate of every target or of the questions alone; a token request
\* may fail
PopulateFrame ==
    \E settings \in {Settings(all, TRUE, all, all, all, overwrite) :
                        all \in BOOLEAN, overwrite \in BOOLEAN} :
      \E fail \in {f \in {<<None, 0>>, <<"token", 1>>} : f[1] = None \/ settings[f[1]]} :
        Populate(settings, FailScript(fail, settings.overwrite))

\* get_questions with no filter or one
GetQuestionsFrame ==
    \E amount \in {0, 1, MaxAmount}, consume \in BOOLEAN, category \in {None, "books"} :
        GetQuestions(1, amount, category, None, None, consume)

FetchTokenStep == \E resp \in SomeResponses : FetchToken(resp)

ResetTokenFrame ==
    \E tok \in Tokens \cup {None}, resp \in SomeResponses : ResetToken(tok, resp)

FetchCategoriesStep == \E resp \in SomeResponses : FetchCategories(resp)

FetchCountStep == \E id \in SomeIds, resp \in SomeResponses : FetchCount(id, resp)

FetchGlobalCountsStep == \E resp \in SomeResponses : FetchGlobalCounts(resp)

GetCategoryStep == \E id \in SomeIds : GetCategory(id)

GetCountStep == \E id \in SomeIds : GetCount(id)

GetGlobalCountStep == \E key \in SomeIds \cup {OverallKey} : GetGlobalCount(key)

NextFrame ==
    \/ NoIterators /\ PopulateFrame
    \/ ~fetcher.made /\ GetQuestionsFrame
    \/ Next_(1)
    \/ Flatten(1)
    \/ Discard(1)
    \/ NoIterators /\ FetchQuestions(1, None)
    \/ AnextStep({<<0>>}, {<<1>>})
    \/ AsyncFlattenStep({<<0>>}, {<<1>>})
    \/ DiscardFetcher
    \/ FetchTokenStep
    \/ ResetTokenFrame
    \/ FetchCategoriesStep
    \/ FetchCountStep
    \/ FetchGlobalCountsStep
    \/ GetCategoryStep
    \/ GetCountStep
    \/ GetGlobalCountStep

SpecFrame == InitFrame /\ [][NextFrame]_vars

(***************************************************************************)
(* SpecDrive: one fetch iterator of any amount up to MaxFetchAmount that   *)
(* its caller keeps driving, by pulls, by flatten or by both; every        *)
(* request returns, with questions, with none or with an error.            *)
(***************************************************************************)
InitDrive == ClientInit(DefaultMaxQuestions)

MakeStep == ~fetcher.made /\ \E amount \in 1..MaxFetchAmount : FetchQuestions(amount, None)

PullStep == AnextStep({<<0>>}, {<<1>>})

DrainStep == AsyncFlattenStep({<<0>>}, {<<1>>})

NextDrive ==
    \/ MakeStep
    \/ PullStep
    \/ DrainStep

\* the caller does not stop driving an iterator that has more to give, and
\* the transport answers every request
SpecDrive == InitDrive /\ [][NextDrive]_vars /\ WF_vars(PullStep \/ DrainStep)

(***************************************************************************)
(* Properties.                                                             *)
(***************************************************************************)
\* the last n elements of s, all of s when it has no more than n
LastN(s, n) == IF Len(s) <= n THEN s ELSE SubSeq(s, Len(s) - n + 1, Len(s))

\* the first n elements of s, all of s when it has no more than n
FirstN(s, n) == SubSeq(s, 1, Min(n, Len(s)))

\* question q has every property the iterator was asked for
Accepts(it, q) ==
    /\ it.category_type # None => q.category.type = it.category_type
    /\ it.difficulty_type # None => q.difficulty = it.difficulty_type
    /\ it.question_type # None => q.type = it.question_type

\* the questions of the iterator's snapshot that it accepts, in order
Matching(it) == SelectSeq(it.snapshot, LAMBDA q : Accepts(it, q))

\* s without the elements at the positions of the set taken
Without(s, taken) ==
    LET kept == {j \in 1..Len(s) : j \notin taken}
        Nth(k) == CHOOSE j \in kept : Cardinality({l \in kept : l < j}) = k - 1
    IN  [k \in 1..Cardinality(kept) |-> s[Nth(k)]]

\* the elements of s at the positions of the set taken, in order
Only(s, taken) == Without(s, (1..Len(s)) \ taken)

C2_CacheBounded ==
    /\ Len(questions) >= 0
    /\ Len(questions) <= maxlen
    /\ maxlen = 0 => questions = <<>>

\* C2: a populate fetched as many questions as the cache can hold, into a
\* cache that was consumed from, and the cache is full
C2_Witness ==
    /\ outcome.op = "populate" /\ outcome.result = "return"
    /\ maxlen > 0 /\ Len(outcome.pushed) = maxlen /\ Len(questions) = maxlen
    /\ iters[2].taken # {}

\* C3: with no other operation on the cache since a consuming iterator was
\* made, the cache is the iterator's snapshot without the questions the
\* iterator yielded, the others in their order, and the iterator yielded as
\* many questions as it removed; this holds after every pull, so also for
\* an iterator that is abandoned early.
C3_ConsumedExactlyYielded ==
    \A i \in IterIds :
        (iters[i].made /\ iters[i].consume)
          => /\ questions = Without(iters[i].snapshot, iters[i].taken)
             /\ iters[i].yielded = Only(iters[i].snapshot, iters[i].taken)
             /\ Cardinality(iters[i].taken) = iters[i].current
             /\ Len(questions) = Len(iters[i].snapshot) - Len(iters[i].yielded)

\* C3: a consuming iterator that may yield more skipped the first question
\* of its snapshot and took the second: the first is what the cache holds
C3_Witness ==
    /\ iters[1].made /\ iters[1].consume /\ ~iters[1].stopped
    /\ iters[1].current < iters[1].amount
    /\ iters[1].taken = {2}
    /\ questions = <<iters[1].snapshot[1]>>

\* C4: an iterator that reached its end yielded the first min(amount, m)
\* of the m questions of its snapshot that pass its filters, in the order
\* of the snapshot; with fewer than amount such questions it ends all the
\* same.
C4_ExhaustedYieldsFirstMatching ==
    \A i \in IterIds :
        (iters[i].made /\ iters[i].stopped)
          => /\ iters[i].yielded = FirstN(Matching(iters[i]), iters[i].amount)
             /\ ~iters[i].raised

\* C4: an iterator ended having yielded fewer questions than its amount,
\* and having passed over a question of its snapshot
C4_Witness ==
    /\ iters[1].made /\ iters[1].stopped
    /\ iters[1].yielded # <<>>
    /\ Len(iters[1].yielded) < iters[1].amount
    /\ Len(iters[1].yielded) < Len(iters[1].snapshot)

\* C5: what an iterator that does not consume yields is decided by the
\* cache at the time the iterator was made: whatever was pushed to,
\* removed from or evicted from the cache since, it has yielded a prefix of
\* the matching questions of its snapshot, and all of them (up to its
\* amount) when it has ended.
C5_SnapshotDecidesYield ==
    \A i \in IterIds :
        (iters[i].made /\ ~iters[i].consume)
          => /\ iters[i].yielded = FirstN(Matching(iters[i]), Len(iters[i].yielded))
             /\ iters[i].stopped
                  => Len(iters[i].yielded) = Min(iters[i].amount, Len(Matching(iters[i])))

\* C5: the iterator that does not consume was pulled last and yielded the
\* second question of its snapshot, when the other iterator had consumed
\* from the cache and the cache was no longer the snapshot
C5_Witness ==
    /\ outcome.op = "__next__" /\ outcome.result = "yield"
    /\ iters[2].made /\ iters[2].stopped /\ iters[2].taken # {}
    /\ iters[1].made /\ Len(iters[1].yielded) = 2
    /\ questions # iters[1].snapshot

\* C6: a pull of a consuming iterator that reaches a question of its
\* snapshot which the cache no longer holds raises no error and yields the
\* question.
C6_MissingIsSilent == outcome.missing => outcome.result = "yield"

\* the amounts of the requests C7 states for an amount
Batches(amount) ==
    [i \in 1..((amount + BatchSize - 1) \div BatchSize) |->
        IF i <= amount \div BatchSize THEN BatchSize ELSE amount % BatchSize]

\* C7: a fetch iterator that reached its end with every request answered
\* successfully issued ceil(amount / 50) requests: amount div 50 requests
\* for 50 questions, then one for amount mod 50 when that is not 0; no
\* iterator ever requests 0 questions.
C7_BatchesOfFifty ==
    /\ (fetcher.made /\ fetcher.stopped /\ ~fetcher.failed)
         => fetcher.issued = Batches(fetcher.amount)
    /\ \A i \in 1..Len(fetcher.issued) : fetcher.issued[i] >= 1

\* C7: an iterator for a multiple of 50 ended after two requests, all
\* answered successfully
C7_Witness ==
    /\ fetcher.made /\ fetcher.stopped /\ ~fetcher.failed
    /\ fetcher.amount = 2 * BatchSize
    /\ Len(fetcher.issued) = 2

\* C8: flatten on a fresh iterator does what pulling a fresh iterator to
\* its end does.  For an iterator over the cache that was only pulled, to
\* its end: flatten on a fresh iterator with the same arguments over the
\* same cache returns the questions it yielded, in order, and leaves the
\* cache it left.  For a fetch iterator that was only pulled, to its end,
\* every request answered successfully: flatten on a fresh iterator with
\* the same arguments, given the same responses, returns the questions it
\* yielded and issues the requests it issued.
C8_FlattenIsPulling ==
    /\ \A i \in IterIds :
          (iters[i].made /\ iters[i].stopped /\ ~iters[i].flattened)
            => \E f \in {flatten(_QuestionsIterator(iters[i].snapshot, iters[i].amount,
                                                    iters[i].category_type,
                                                    iters[i].difficulty_type,
                                                    iters[i].question_type,
                                                    iters[i].consume),
                                 iters[i].snapshot, <<>>)} :
                   /\ f.result = "return"
                   /\ f.questions = iters[i].yielded
                   /\ f.live = questions
    /\ (fetcher.made /\ fetcher.stopped /\ ~fetcher.flattened /\ ~fetcher.failed)
         => \E g \in {async_flatten(_AsyncQuestionsIterator(fetcher.amount, fetcher.token),
                                    categories, fetcher.answers, <<>>)} :
                /\ g.result = "return"
                /\ g.questions = fetcher.yielded
                /\ g.ft.issued = fetcher.issued

\* C8: a consuming iterator was pulled to its end, one question at a
\* time, and yielded two questions
C8_Witness ==
    /\ iters[1].made /\ iters[1].stopped /\ ~iters[1].flattened
    /\ iters[1].consume
    /\ Len(iters[1].yielded) = 2

\* C9: once a request of a fetch iterator has failed, the iteration is
\* over: no later call on the iterator issues a request or yields a
\* question.
C9_FailureEndsIteration ==
    [][ (fetcher.made /\ fetcher.failed /\ fetcher'.made)
          => /\ fetcher'.issued = fetcher.issued
             /\ fetcher'.yielded = fetcher.yielded ]_vars

\* C10: a response with response_code 1, 2, 3 or 4 raises NoResults,
\* InvalidParameter, TokenNotFound or TokenEmpty, in that order; a response
\* with response_code 0 or with none raises nothing.
C10_CodesClassified ==
    \A i \in 1..Len(fetcher.answers) :
        /\ fetcher.answers[i].code = <<1>> => fetcher.errors[i] = "NoResults"
        /\ fetcher.answers[i].code = <<2>> => fetcher.errors[i] = "InvalidParameter"
        /\ fetcher.answers[i].code = <<3>> => fetcher.errors[i] = "TokenNotFound"
        /\ fetcher.answers[i].code = <<4>> => fetcher.errors[i] = "TokenEmpty"
        /\ fetcher.answers[i].code \in {<<>>, <<0>>} => fetcher.errors[i] = None
        /\ fetcher.errors[i] = None => fetcher.answers[i].code \in {<<>>, <<0>>}

\* C10: one iterator had a response without a response_code accepted and a
\* response with response_code 4 raise TokenEmpty
C10_Witness ==
    \E i, j \in 1..Len(fetcher.answers) :
        /\ fetcher.answers[i].code = <<>> /\ fetcher.errors[i] = None
        /\ fetcher.answers[j].code = <<4>> /\ fetcher.errors[j] = "TokenEmpty"

\* the requests of reqs that ask for questions
QuestionRequests(reqs) == SelectSeq(reqs, LAMBDA r : r.endpoint = "api.php")

\* the sum of the amounts of the requests reqs
RECURSIVE TotalAmount(_)
TotalAmount(reqs) ==
    IF reqs = <<>> THEN 0 ELSE Head(reqs).amount + TotalAmount(Tail(reqs))

\* needed of a populate step: the capacity with overwrite, else the free
\* slots of the cache before the call
NeededBy(overwrite) == IF overwrite THEN maxlen ELSE maxlen - Len(questions)

\* C11: a populate with questions enabled whose requests all succeed asks
\* for needed questions in all, needed being the capacity with overwrite
\* and the free slots without; it issues no question request when needed
\* <= 0 (so none without overwrite on a full cache); on an empty cache of
\* capacity 50 it issues one request for 50 and the cache then holds the 50
\* questions returned.
C11_PopulateRequestsNeeded ==
    [][ (outcome'.op = "populate" /\ outcome'.settings.questions)
          => /\ NeededBy(outcome'.settings.overwrite) <= 0
                  => QuestionRequests(net') = <<>>
             /\ (~outcome'.settings.overwrite /\ Len(questions) = maxlen)
                  => QuestionRequests(net') = <<>>
             /\ (outcome'.result = "return" /\ NeededBy(outcome'.settings.overwrite) > 0)
                  => TotalAmount(QuestionRequests(net'))
                       = NeededBy(outcome'.settings.overwrite)
             /\ (outcome'.result = "return" /\ questions = <<>>
                   /\ maxlen = DefaultMaxQuestions)
                  => /\ QuestionRequests(net')
                          = <<Request("api.php", DefaultMaxQuestions, 0, token)>>
                     /\ Len(outcome'.pushed) = DefaultMaxQuestions
                          => questions' = outcome'.pushed ]_vars

\* C11: a populate of a client of capacity 50 issued one request for 50
\* and the cache holds the 50 questions returned
C11_Witness ==
    /\ outcome.op = "populate" /\ outcome.result = "return"
    /\ maxlen = DefaultMaxQuestions
    /\ Len(net) = 1 /\ net[1].amount = DefaultMaxQuestions
    /\ Len(outcome.pushed) = DefaultMaxQuestions
    /\ questions = outcome.pushed

\* C12: a populate with questions and overwrite enabled that returns
\* leaves a cache that holds questions fetched by the call and none of the
\* questions cached before it.
C12_OverwriteReplacesAll ==
    [][ (outcome'.op = "populate" /\ outcome'.result = "return"
           /\ outcome'.settings.questions /\ outcome'.settings.overwrite)
          => questions' = LastN(outcome'.pushed, maxlen) ]_vars

\* C13: a populate with questions enabled and overwrite disabled that
\* returns leaves every question cached before the call in the cache, in
\* the same order, ahead of the questions it fetched.
C13_FillKeepsCached ==
    [][ (outcome'.op = "populate" /\ outcome'.result = "return"
           /\ outcome'.settings.questions /\ ~outcome'.settings.overwrite)
          => /\ questions' = questions \o outcome'.pushed
             /\ SubSeq(questions', 1, Len(questions)) = questions ]_vars

\* C13: a populate without overwrite fetched questions into a cache that
\* held questions
C13_Witness ==
    /\ outcome.op = "populate" /\ outcome.result = "return"
    /\ outcome.settings.questions /\ ~outcome.settings.overwrite
    /\ outcome.pushed # <<>>
    /\ Len(questions) > Len(outcome.pushed)

\* the requests of reqs sent to the endpoint
RequestsTo(reqs, endpoint) == SelectSeq(reqs, LAMBDA r : r.endpoint = endpoint)

\* C14: a populate with token enabled issues a token request if and only
\* if no token is cached or overwrite is set; with a token cached and
\* overwrite not set the cached token is unchanged and no token request is
\* made.
C14_TokenFetchedWhenDue ==
    [][ (outcome'.op = "populate" /\ outcome'.settings.token)
          => /\ RequestsTo(net', "api_token.php") # <<>>
                  <=> (token = None \/ outcome'.settings.overwrite)
             /\ (token # None /\ ~outcome'.settings.overwrite)
                  => /\ token' = token
                     /\ RequestsTo(net', "api_token.php") = <<>> ]_vars

\* C14: a populate with token enabled and overwrite not set ran on a
\* client that held a token, asked for none and left the token alone
C14_Witness ==
    /\ outcome.op = "populate" /\ outcome.settings.token
    /\ ~outcome.settings.overwrite
    /\ token # None
    /\ RequestsTo(net, "api_token.php") = <<>>
    /\ outcome.settings.questions /\ RequestsTo(net, "api.php") # <<>>

\* the endpoint of each target of populate, in the order of Stages
Endpoints == << "api_token.php", "api.php", "api_category.php", "api_count.php",
               "api_count_global.php" >>

\* the position in Stages of the target an endpoint serves
StageOf(endpoint) == CHOOSE i \in 1..Len(Endpoints) : Endpoints[i] = endpoint

\* a populate whose outcome is o and whose requests are reqs came to the
\* j-th target: it returned, or the request that failed (the last one) is
\* of that target or of a later one
CameTo(o, reqs, j) ==
    o.result = "return" \/ (reqs # <<>> /\ StageOf(reqs[Len(reqs)].endpoint) >= j)

\* the rule of one keyed cache: requests exactly when the cache was empty
\* or overwrite is set, and a cache that was not empty is left alone
\* without overwrite
FetchedWhenDue(enabled, overwrite, came, before, after, reqs) ==
    /\ (enabled /\ came)
          => (reqs # <<>> <=> (DOMAIN before = {} \/ overwrite))
    /\ (enabled /\ DOMAIN before # {} /\ ~overwrite)
          => (after = before /\ reqs = <<>>)

\* C15: for each of the categories, counts and global-counts targets, a
\* populate with the target enabled that comes to the target issues
\* requests for it if and only if the target's cache is empty or overwrite
\* is set; with a non-empty cache and overwrite not set the cache is
\* unchanged and no request for the target is made.
C15_KeyedCachesFetchedWhenDue ==
    [][ outcome'.op = "populate"
          => /\ FetchedWhenDue(outcome'.settings.categories, outcome'.settings.overwrite,
                                CameTo(outcome', net', 3), categories, categories',
                                RequestsTo(net', "api_category.php"))
             /\ FetchedWhenDue(outcome'.settings.counts, outcome'.settings.overwrite,
                                CameTo(outcome', net', 4), counts, counts',
                                RequestsTo(net', "api_count.php"))
             /\ FetchedWhenDue(outcome'.settings.global_counts, outcome'.settings.overwrite,
                                CameTo(outcome', net', 5), global_counts, global_counts',
                                RequestsTo(net', "api_count_global.php")) ]_vars

\* C15: a populate with every target enabled and overwrite not set found
\* categories cached and asked for none, and found no counts and no global
\* counts cached and asked for both
C15_Witness ==
    /\ outcome.op = "populate" /\ outcome.result = "return"
    /\ outcome.settings.categories /\ outcome.settings.counts
    /\ outcome.settings.global_counts /\ ~outcome.settings.overwrite
    /\ RequestsTo(net, "api_category.php") = <<>>
    /\ Len(RequestsTo(net, "api_count.php")) = Len(CategoryIds)
    /\ Len(RequestsTo(net, "api_count_global.php")) = 1
    /\ DOMAIN categories # {} /\ DOMAIN counts # {} /\ DOMAIN global_counts # {}

\* the responses the transport had for each target, in the order of Stages
ResponsesOf(script) ==
    << <<script.token>>, script.questions, <<script.categories>>, script.counts,
       <<script.global_counts>> >>

\* the requests of reqs that failed: <<j, i>> when the i-th request of the
\* j-th target was answered with an error code
FailedRequests(script, reqs) ==
    UNION {{<<j, i>> : i \in {k \in 1..Min(Len(RequestsTo(reqs, Endpoints[j])),
                                          Len(ResponsesOf(script)[j])) :
                                 ResponsesOf(script)[j][k].code \in ErrorCodes}} :
           j \in 1..Len(Stages)}

\* C16: when a request fails during populate the call ends with the error
\* of that request and the request is the last one of the call; the caches
\* of the targets that come after the failing one (order: token,
\* questions, categories, counts, global counts) are unchanged; what the
\* call stored for earlier targets, and for the categories of the counts
\* loop that came before the failing one, stays stored.
C16_FailureEndsPopulate ==
    [][ outcome'.op = "populate"
          => \A f \in FailedRequests(outcome'.script, net') :
               /\ outcome'.result = _ERRORS(ResponsesOf(outcome'.script)[f[1]][f[2]].code)
               /\ StageOf(net'[Len(net')].endpoint) = f[1]
               /\ Len(RequestsTo(net', Endpoints[f[1]])) = f[2]
               /\ \A j \in (f[1] + 1)..Len(Stages) : RequestsTo(net', Endpoints[j]) = <<>>
               /\ f[1] < 2 => questions' = questions
               /\ f[1] < 3 => categories' = categories
               /\ f[1] < 4 => counts' = counts
               /\ f[1] < 5 => global_counts' = global_counts
               /\ (f[1] > 1 /\ RequestsTo(net', Endpoints[1]) # <<>>)
                    => (token' = outcome'.script.token.token /\ token' # token)
               /\ (f[1] > 2 /\ RequestsTo(net', Endpoints[2]) # <<>>)
                    => /\ outcome'.pushed # <<>>
                       /\ questions' = LastN(questions \o outcome'.pushed, maxlen)
               /\ (f[1] > 3 /\ RequestsTo(net', Endpoints[3]) # <<>>)
                    => DOMAIN categories' = CategoryIdSet
               /\ f[1] = 4
                    => {CategoryIds[i] : i \in 1..(f[2] - 1)} \subseteq DOMAIN counts'
               /\ (f[1] > 4 /\ RequestsTo(net', Endpoints[4]) # <<>>)
                    => DOMAIN counts' = CategoryIdSet ]_vars

\* C16: a populate with every target enabled failed at its second count
\* request: the token, the questions, the categories and the first count
\* it stored are cached, no global count is
C16_Witness ==
    /\ outcome.op = "populate" /\ outcome.result = "NoResults"
    /\ outcome.settings.token /\ outcome.settings.questions
    /\ outcome.settings.categories /\ outcome.settings.global_counts
    /\ Len(RequestsTo(net, "api_count.php")) = 2
    /\ net[Len(net)] = Request("api_count.php", 0, CategoryIds[2], None)
    /\ token = outcome.script.token.token
    /\ questions # <<>> /\ questions = LastN(outcome.pushed, maxlen)
    /\ DOMAIN categories = CategoryIdSet
    /\ DOMAIN counts = {CategoryIds[1]}
    /\ DOMAIN global_counts = {}

\* C17: when a batch of the question fetch of a populate fails, the first
\* one or one that follows batches that succeeded, the question cache
\* after the call is the cache before it: the questions of the batches
\* that succeeded are not pushed.
C17_FailedFetchKeepsCache ==
    [][ (outcome'.op = "populate" /\ outcome'.settings.questions)
          => \A f \in FailedRequests(outcome'.script, net') :
               f[1] = 2 => /\ outcome'.result # "return"
                           /\ questions' = questions
                           /\ outcome'.pushed = <<>> ]_vars

\* C17: the second batch of a populate failed after the first brought a
\* full batch of questions; the cache holds the questions of an earlier
\* call
C17_Witness ==
    /\ outcome.op = "populate" /\ outcome.result # "return"
    /\ Len(RequestsTo(net, "api.php")) = 2
    /\ Len(outcome.script.questions[1].results) = BatchSize
    /\ outcome.script.questions[1].code = <<0>>
    /\ outcome.script.questions[2].code \in ErrorCodes
    /\ outcome.pushed = <<>>
    /\ Len(questions) = 1

\* the null Category._from_partial returns
NoCategory == [name |-> None, id |-> 0, type |-> None]

\* C18: on a client with an empty category cache, for every entry
\* (id, name) of the static table, resolving the partial that holds the id
\* alone and resolving the partial that holds the name alone both return
\* the Category {name, id, type = the CategoryType member of value id};
\* resolving a partial with neither name nor id returns null.
C18_PartialsResolveAlike ==
    (outcome.op = "_from_partial" /\ DOMAIN categories = {})
      => /\ \A i \in 1..Len(CategoryNames) :
               (\/ outcome.data = [name |-> None, id |-> CategoryIds[i]]
                \/ outcome.data = [name |-> CategoryNames[i], id |-> 0])
                 => outcome.category = [name |-> CategoryNames[i],
                                        id |-> FirstCategoryId + i - 1,
                                        type |-> CategoryTypeNames[i]]
         /\ outcome.data = [name |-> None, id |-> 0] => outcome.category = NoCategory

\* C18: the partial {id: 9} was resolved on an empty category cache to
\* General Knowledge, 9, general
C18_Witness ==
    /\ outcome.op = "_from_partial" /\ DOMAIN categories = {}
    /\ outcome.data = [name |-> None, id |-> 9]
    /\ outcome.category = [name |-> "General Knowledge", id |-> 9, type |-> "general"]

\* the caches of the client and the iterators the caller holds
Effects == <<maxlen, token, questions, categories, counts, global_counts, iters, fetcher>>

\* C19: a construction with a negative capacity raises and makes no
\* client; get_questions and fetch_questions with an amount below 1 (zero
\* or negative) raise, make no iterator, issue no request and change no
\* cache.
C19_InvalidRejectedFirst ==
    [][ /\ \A n \in {-1} :
              Construct(n)
                => /\ outcome'.result = "ValueError"
                   /\ net' = <<>>
                   /\ UNCHANGED Effects
        /\ \A amount \in (-1)..0, consume \in BOOLEAN :
              GetQuestions(1, amount, None, None, None, consume)
                => /\ outcome'.result = "ValueError"
                   /\ net' = <<>>
                   /\ UNCHANGED Effects
        /\ \A amount \in (-1)..0 :
              FetchQuestions(amount, None)
                => /\ outcome'.result = "ValueError"
                   /\ net' = <<>>
                   /\ UNCHANGED Effects ]_vars

\* C19: fetch_questions raised ValueError on a client whose cache holds
\* questions, and the caller holds no iterator
C19_Witness ==
    /\ outcome.op = "fetch_questions" /\ outcome.result = "ValueError"
    /\ questions # <<>>
    /\ ~fetcher.made /\ \A i \in IterIds : ~iters[i].made
    /\ net = <<>>

\* C20: reset_token called without a token on a client that holds none
\* raises ValueError, issues no request and leaves the token cache empty.
C20_ResetNeedsToken ==
    [][ \A resp \in TokenResponses :
          (token = None /\ ResetToken(None, resp))
            => /\ outcome'.result = "ValueError"
               /\ net' = <<>>
               /\ token' = None ]_vars

\* C20: reset_token without a token raised ValueError on a client that
\* holds none, though the transport had a token for it
C20_Witness ==
    /\ outcome.op = "reset_token" /\ outcome.result = "ValueError"
    /\ outcome.supplied = None
    /\ outcome.response.code = <<0>> /\ outcome.response.token \in Tokens
    /\ token = None
    /\ net = <<>>

\* C21: the client holds one token or none; the cached token changes only
\* in a populate with token enabled or in a reset_token called without a
\* token, which caches the token returned when it succeeds and leaves the
\* cached one alone when it fails; fetch_token and reset_token called with
\* a token never change the cached token.
C21_TokenChangesOnlyByOwner ==
    [][ /\ token' \in Tokens \cup {None}
        /\ token' # token
             => \/ outcome'.op = "populate" /\ outcome'.settings.token
                \/ /\ outcome'.op = "reset_token"
                   /\ outcome'.supplied = None
                   /\ outcome'.result = "return"
        /\ (outcome'.op = "reset_token" /\ outcome'.supplied = None)
             => token' = IF outcome'.result = "return" THEN outcome'.new_token ELSE token
        /\ (outcome'.op = "reset_token" /\ outcome'.supplied # None) => token' = token
        /\ outcome'.op = "fetch_token" => token' = token ]_vars

\* C21: a reset_token called with a token returned a token that is not the
\* cached one, and the cached one is still there
C21_Witness ==
    /\ outcome.op = "reset_token" /\ outcome.result = "return"
    /\ outcome.supplied # None
    /\ outcome.new_token \in Tokens
    /\ token \in Tokens
    /\ token # outcome.new_token

\* a is b with some elements taken out
RECURSIVE TakenFrom(_, _)
TakenFrom(a, b) ==
    IF a = <<>> THEN TRUE
    ELSE IF b = <<>> THEN FALSE
    ELSE IF Head(a) = Head(b) THEN TakenFrom(Tail(a), Tail(b))
    ELSE TakenFrom(a, Tail(b))

\* the four caches of questions, categories, counts and global counts
Caches == <<questions, categories, counts, global_counts>>

\* the operations that read the caches or the network and store nothing
Readers ==
    { "get_questions", "discard", "fetch_questions", "__anext__", "async_flatten",
      "fetch_token", "reset_token", "fetch_categories", "fetch_count",
      "fetch_global_counts", "get_category", "get_count", "get_global_count" }

\* C22: the question, category, count and global-count caches change only
\* in a populate and in a pull (one or a flatten) of a get_questions
\* iterator with consume set, and such a pull only takes questions out of
\* the question cache; pulls of an iterator without consume,
\* get_questions, fetch_questions and the pulls and the flatten of its
\* iterator, fetch_categories, fetch_count, fetch_global_counts and the
\* lookups leave every cache unchanged.
C22_CachesChangeOnlyByOwner ==
    [][ /\ Caches' # Caches
             => \/ outcome'.op = "populate"
                \/ outcome'.op \in {"__next__", "flatten"} /\ iters[1].consume
        /\ outcome'.op \in {"__next__", "flatten"}
             => /\ <<categories, counts, global_counts>>'
                     = <<categories, counts, global_counts>>
                /\ Len(questions') <= Len(questions)
                /\ TakenFrom(questions', questions)
                /\ ~iters[1].consume => questions' = questions
        /\ outcome'.op \in Readers => Caches' = Caches ]_vars

\* C22: a fetch_count returned a count while every cache held entries and
\* a get_questions iterator with consume set had taken a question out
C22_Witness ==
    /\ outcome.op = "fetch_count" /\ outcome.result = "return"
    /\ DOMAIN categories # {} /\ DOMAIN counts # {} /\ DOMAIN global_counts # {}
    /\ iters[1].made /\ iters[1].consume /\ iters[1].yielded # <<>>
    /\ questions # <<>> /\ Len(questions) < Len(iters[1].snapshot)

\* C23: a populate that populates counts on an empty counts cache and
\* returns has issued one count request per category id of the static
\* table, 24 requests for the ids 9..32 with no id twice, and the counts
\* cache then has one entry for each of these ids and no other.
C23_OneCountPerCategory ==
    [][ (outcome'.op = "populate" /\ outcome'.result = "return"
           /\ outcome'.settings.counts /\ DOMAIN counts = {})
          => /\ Len(RequestsTo(net', "api_count.php")) = 24
             /\ {RequestsTo(net', "api_count.php")[i].category : i \in 1..24} = 9..32
             /\ DOMAIN counts' = 9..32 ]_vars

\* C23: a populate of the counts alone returned after 24 count requests
\* and the counts cache has 24 entries
C23_Witness ==
    /\ outcome.op = "populate" /\ outcome.result = "return"
    /\ outcome.settings.counts /\ ~outcome.settings.categories
    /\ ~outcome.settings.overwrite
    /\ Len(net) = 24
    /\ \A i \in 1..24 : net[i] = Request("api_count.php", 0, 8 + i, None)
    /\ Cardinality(DOMAIN counts) = 24

Terminated == fetcher.stopped \/ fetcher.failed

\* C25: a fetch_questions iterator that is driven, by flatten or by
\* repeated pulls, comes to the end signal or to an error, and at no time
\* has it issued more than ceil(amount / 50) requests; this with batches
\* answered with questions, with fewer than asked for, with none or with
\* an error.
C25_DrivingTerminates ==
    /\ [](fetcher.made => Len(fetcher.issued) * 50 < fetcher.amount + 50)
    /\ (fetcher.made ~> Terminated)

\* C25: an iterator for 101 questions came to its end after three
\* requests, one of them answered with no question and one with fewer
\* than asked for
C25_Witness ==
    /\ fetcher.made /\ fetcher.amount = 101
    /\ fetcher.stopped /\ ~fetcher.failed
    /\ Len(fetcher.issued) = 3
    /\ \E i, j \in 1..3 :
          /\ fetcher.answers[i].results = <<>>
          /\ fetcher.answers[j].results # <<>>
          /\ Len(fetcher.answers[j].results) < fetcher.issued[j]

\* the questions of the first n answers, in order
RECURSIVE QuestionsOf(_, _)
QuestionsOf(answers, n) ==
    IF n = 0 THEN <<>>
    ELSE QuestionsOf(answers, n - 1) \o _create_questions(categories, answers[n].results)

\* C26: when a fetch iterator is pulled one question at a time and the
\* request of batch j fails, the caller has been given every question of
\* the batches 1..j-1, in order, when the error is raised; flatten on a
\* fresh iterator with the same arguments and the same responses raises
\* the same error and returns no question.
C26_PullsKeepWhatFlattenDrops ==
    [][ (/\ outcome'.op = "__anext__"
         /\ fetcher.made /\ ~fetcher.flattened /\ ~fetcher.failed
         /\ fetcher'.failed)
          => /\ outcome'.result = fetcher'.errors[Len(fetcher'.issued)]
             /\ outcome'.result \notin {None, "yield", "StopAsyncIteration"}
             /\ fetcher'.yielded = QuestionsOf(fetcher'.answers, Len(fetcher'.issued) - 1)
             /\ \E g \in {async_flatten(_AsyncQuestionsIterator(fetcher.amount, fetcher.token),
                                         categories, fetcher'.answers, <<>>)} :
                    /\ g.result = outcome'.result
                    /\ g.questions = <<>>
                    /\ g.ft.issued = fetcher'.issued ]_vars

\* C26: the second request of an iterator that was pulled failed after
\* the caller had been given the questions of the first batch
C26_Witness ==
    /\ outcome.op = "__anext__" /\ outcome.result = "NoResults"
    /\ fetcher.made /\ fetcher.failed /\ ~fetcher.flattened
    /\ Len(fetcher.issued) = 2
    /\ fetcher.answers[1].results # <<>>
    /\ Len(fetcher.yielded) = Len(fetcher.answers[1].results)

\* C27: the requests of one populate come in the order of its targets:
\* token, questions, categories, counts, global counts; so the token
\* request comes before the first question request, and every question
\* request of the call carries the token the client holds at that point,
\* which is the token just fetched when the call fetched one.
C27_TargetsInOrder ==
    [][ outcome'.op = "populate"
          => /\ \A i \in 1..(Len(net') - 1) :
                   StageOf(net'[i].endpoint) <= StageOf(net'[i + 1].endpoint)
             /\ \A i \in 1..Len(net') :
                   net'[i].endpoint = "api.php"
                     => /\ net'[i].token = token'
                        /\ RequestsTo(net', "api_token.php") # <<>>
                             => /\ net'[1].endpoint = "api_token.php"
                                /\ net'[i].token = outcome'.script.token.token
                                /\ net'[i].token # token ]_vars

\* C27: a populate with overwrite replaced the cached token and then
\* asked for questions with the new token, and went on to the other
\* targets
C27_Witness ==
    /\ outcome.op = "populate" /\ outcome.result = "return"
    /\ outcome.settings.overwrite
    /\ Len(net) = 4 + Len(CategoryIds)
    /\ net[1].endpoint = "api_token.php"
    /\ net[2] = Request("api.php", maxlen, 0, "t2")
    /\ net[3].endpoint = "api_category.php"
    /\ net[4].endpoint = "api_count.php"
    /\ net[Len(net)].endpoint = "api_count_global.php"
    /\ token = "t2"

\* the count requests of the populate that ran last that failed: their
\* positions k in the static table
FailedCounts == {f[2] : f \in {g \in FailedRequests(outcome.script, net) : g[1] = 4}}

\* C28 as stated, for every k: when populate fails at the count of the
\* k-th category the counts of the first k-1 categories stay cached, and a
\* later populate without overwrite issues no count request.
C28_FailedCountsStay ==
    [][ outcome'.op = "populate"
          => /\ \A f \in FailedRequests(outcome'.script, net') :
                   f[1] = 4 => \A i \in 1..(f[2] - 1) : (8 + i) \in DOMAIN counts'
             /\ (outcome.op = "populate" /\ FailedCounts # {}
                   /\ ~outcome'.settings.overwrite)
                  => RequestsTo(net', "api_count.php") = <<>> ]_vars

\* C28, for a counts cache that the failure leaves non-empty (as it does
\* for every k >= 2): when populate fails at the count of the k-th
\* category the counts of the first k-1 categories stay cached; a later
\* populate without overwrite then issues no count request and leaves the
\* counts cache as it is, so that a populate that fetches counts again is
\* one with overwrite.
C28_PartialCountsStay ==
    [][ outcome'.op = "populate"
          => /\ \A f \in FailedRequests(outcome'.script, net') :
                   f[1] = 4 => /\ \A i \in 1..(f[2] - 1) : (8 + i) \in DOMAIN counts'
                               /\ f[2] >= 2 => DOMAIN counts' # {}
             /\ (outcome.op = "populate" /\ FailedCounts # {} /\ DOMAIN counts # {})
                  => /\ ~outcome'.settings.overwrite
                          => /\ RequestsTo(net', "api_count.php") = <<>>
                             /\ counts' = counts
                     /\ RequestsTo(net', "api_count.php") # <<>>
                          => outcome'.settings.overwrite ]_vars

\* C28: the counts cache holds the one count that a populate stored
\* before its second count request failed, and a populate of the counts
\* without overwrite has since returned without a count request
C28_Witness ==
    /\ outcome.op = "populate" /\ outcome.result = "return"
    /\ outcome.settings.counts /\ ~outcome.settings.overwrite
    /\ RequestsTo(net, "api_count.php") = <<>>
    /\ DOMAIN counts = {9}

====
